---- MODULE Spec2Model ----
(***************************************************************************)
(* A model of the loggy logging engine (package loggy): construction       *)
(* (New and its options), the severity-filtered write path (Log and the    *)
(* per-level wrappers), the fatal-termination contract and the runtime     *)
(* mutators (UpdateWriter, SetLevel, GetLevel, Name).                      *)
(*                                                                         *)
(* Text is modelled as a sequence of characters, each character a string.  *)
(* A character the code never looks inside (a severity label, a timestamp  *)
(* field) may stand for several bytes; the characters the code inspects    *)
(* (':' and ' ' of a name, '/' of a path, the final "\n" of a line, the    *)
(* decimal digits of a line number) are single bytes.                      *)
(***************************************************************************)
EXTENDS Integers, Sequences, FiniteSets, TLC

VARIABLES
    l,          \* the Logger: name, writer, minLevel, timeFormat, useUTC, severityNames
    bufs,       \* what each destination has received
    lockHolder, \* for each lock-capable destination, the thread holding its lock
    last,       \* the call just made: its arguments, what it returned, what it did
    accepted,   \* the level of the most recent SetLevel(level <= Disabled), else New's
    thr         \* the position and locals of each concurrently running Log call

vars == <<l, bufs, lockHolder, last, accepted, thr>>

(***************************************************************************)
(* Bounds of the model.                                                    *)
(***************************************************************************)
MaxLevel   == 6   \* severities 0..MaxLevel are passed in (DisableIssuer + 1 included)
MaxMsgLen  == 2   \* message components per call
MaxNameLen == 4   \* characters of a name handed to New
MaxOpts    == 2   \* options handed to New
NThreads   == 2   \* concurrent calls, one per thread

(***************************************************************************)
(* Severity (types.go, the const block).                                   *)
(***************************************************************************)
DebugIssuer   == 0
InfoIssuer    == 1
WarnIssuer    == 2
ErrorIssuer   == 3
FatalIssuer   == 4
DisableIssuer == 5

Levels == 0..MaxLevel

(***************************************************************************)
(* Destinations.  L1, L2 implement locker; P1, P2 are plain io.Writers.     *)
(***************************************************************************)
Lockers   == {"L1", "L2"}
Plain     == {"P1", "P2"}
NilWriter == "nil"
Writers   == Lockers \cup Plain

\* l.writer.(locker): the type assertion succeeds for lock-capable writers
HasLock(w) == w \in Lockers

NoThread == 0
NoLock == "none"
NoErr    == "nil"
WriteErr == "EIO"

\* err.Error()
ErrorText(e) == IF e = NoErr THEN <<>> ELSE <<e>>

NL == "\n"

SeqsUpTo(S, n) == UNION {[1..k -> S] : k \in 0..n}

(***************************************************************************)
(* Message components: a Caller marker, a string, or another value (int).  *)
(***************************************************************************)
CallerC(d) == [kind |-> "Caller", n |-> d, s |-> <<>>]
StrC(s)    == [kind |-> "string", n |-> 0, s |-> s]
IntC(i)    == [kind |-> "int",    n |-> i, s |-> <<>>]

Components ==
    { CallerC(-1), CallerC(1), CallerC(100),
      StrC(<<"a">>), StrC(<<"a", NL>>), IntC(7) }

Msgs == SeqsUpTo(Components, MaxMsgLen)

(***************************************************************************)
(* strconv.Itoa and the default formatting of an integer.                  *)
(***************************************************************************)
DigitChars == <<"0", "1", "2", "3", "4", "5", "6", "7", "8", "9">>

RECURSIVE NatStr(_)
NatStr(n) ==
    IF n < 10 THEN <<DigitChars[n + 1]>>
    ELSE NatStr(n \div 10) \o <<DigitChars[(n % 10) + 1]>>

Itoa(i) == IF i < 0 THEN <<"-">> \o NatStr(-i) ELSE NatStr(i)

(***************************************************************************)
(* fmt.Sprint: operands in their default format, a space between two       *)
(* operands when neither is a string.  A Caller that is not consumed is an *)
(* integer operand.                                                        *)
(***************************************************************************)
IsString(c) == c.kind = "string"

SprintOne(c) == IF IsString(c) THEN c.s ELSE Itoa(c.n)

RECURSIVE SprintFrom(_, _)
SprintFrom(msg, i) ==
    IF i > Len(msg) THEN <<>>
    ELSE (IF i > 1 /\ ~IsString(msg[i]) /\ ~IsString(msg[i - 1])
            THEN <<" ">> ELSE <<>>)
         \o SprintOne(msg[i]) \o SprintFrom(msg, i + 1)

Sprint(msg) == SprintFrom(msg, 1)

(***************************************************************************)
(* filepath.Base.                                                          *)
(***************************************************************************)
RECURSIVE StripSlashes(_)
StripSlashes(p) ==
    IF Len(p) > 0 /\ p[Len(p)] = "/"
    THEN StripSlashes(SubSeq(p, 1, Len(p) - 1))
    ELSE p

LastSlash(p) ==
    LET S == {i \in 1..Len(p) : p[i] = "/"}
    IN  IF S = {} THEN 0 ELSE CHOOSE i \in S : \A j \in S : j <= i

Base(p) ==
    IF p = <<>> THEN <<".">>
    ELSE LET q == StripSlashes(p)
         IN  IF q = <<>> THEN <<"/">>
             ELSE SubSeq(q, LastSlash(q) + 1, Len(q))

(***************************************************************************)
(* The call stack above Log, as runtime.Caller sees it: depth frames,      *)
(* frame n (n = 0 is Log itself) in the given file at line n + 1.          *)
(***************************************************************************)
Stacks ==
    { [depth |-> 3,   file |-> <<"d", "/", "m">>],
      [depth |-> 120, file |-> <<"w">>] }

\* runtime.Caller(n)
RuntimeCaller(stk, n) ==
    IF n < stk.depth
    THEN [ok |-> TRUE,  file |-> stk.file, line |-> n + 1]
    ELSE [ok |-> FALSE, file |-> <<>>,     line |-> 0]

NoSite == [ok |-> FALSE, file |-> <<>>, line |-> 0]

(***************************************************************************)
(* time.Now, Time.UTC and Time.Format.  A layout is a sequence of fields:  *)
(* "2006" prints the year, "15" the hour, anything else itself.            *)
(***************************************************************************)
Clock == { [year |-> "2024", hour |-> "09", utcHour |-> "07"] }

UTC(t) == [t EXCEPT !.hour = t.utcHour]

FormatField(t, f) ==
    IF f = "2006" THEN t.year ELSE IF f = "15" THEN t.hour ELSE f

Format(t, layout) == [i \in 1..Len(layout) |-> FormatField(t, layout[i])]

DefaultTimeFormat == <<"2006", " ", "15">>
DefaultSeverityNames == <<"debug:", "info:", "warn:", "error:", "fatal:">>

(***************************************************************************)
(* Options.                                                                *)
(***************************************************************************)
OptTimeFormat(f) == [opt |-> "WithTimeFormat", format |-> f, utc |-> FALSE, names |-> <<>>]
OptUTC(u)        == [opt |-> "WithUTC", format |-> <<>>, utc |-> u, names |-> <<>>]
OptNames(ns)     == [opt |-> "WithSeverityNames", format |-> <<>>, utc |-> FALSE, names |-> ns]

WithTimeFormat(lg, format) == [lg EXCEPT !.timeFormat = format]

WithUTC(lg, utc) == [lg EXCEPT !.useUTC = utc]

WithSeverityNamesMut(lg, names) ==
    IF Len(names) >= 5 THEN [lg EXCEPT !.severityNames = names] ELSE lg

WithSeverityNames(lg, names) ==
    IF Len(names) = 5 THEN [lg EXCEPT !.severityNames = names] ELSE lg

ApplyOption(lg, o) ==
    IF o.opt = "WithTimeFormat" THEN WithTimeFormat(lg, o.format)
    ELSE IF o.opt = "WithUTC" THEN WithUTC(lg, o.utc)
    ELSE WithSeverityNames(lg, o.names)

RECURSIVE ApplyOptions(_, _, _)
ApplyOptions(lg, opts, i) ==
    IF i > Len(opts) THEN lg
    ELSE ApplyOptions(ApplyOption(lg, opts[i]), opts, i + 1)

(***************************************************************************)
(* New.                                                                    *)
(***************************************************************************)
ZeroLogger ==
    [ constructed   |-> FALSE,
      name          |-> <<>>,
      writer        |-> NilWriter,
      minLevel      |-> 0,
      timeFormat    |-> <<>>,
      useUTC        |-> FALSE,
      severityNames |-> <<>> ]

ValidNameMut(name) ==
    ~(Len(name) < 3 \/ name[1] /= ":" \/ name[Len(name)] /= ":")

ValidName(name) ==
    ~(Len(name) < 3 \/ name[1] /= ":" \/ name[2] /= " " \/ name[Len(name)] /= ":")

ValidWriterAndLevel(writer, minLevel) ==
    ~(writer = NilWriter \/ minLevel > DisableIssuer)

PanicName   == <<"loggy: invalid name format - use ': name:'">>
PanicWriter == <<"loggy: invalid writer or severity level">>

\* the panic New raises, <<>> when it raises none
NewPanic(name, writer, minLevel) ==
    IF ~ValidName(name) THEN PanicName
    ELSE IF ~ValidWriterAndLevel(writer, minLevel) THEN PanicWriter
    ELSE <<>>

\* the Logger New returns when it does not panic
New(name, writer, minLevel, opts) ==
    ApplyOptions(
        [ constructed   |-> TRUE,
          name          |-> name,
          writer        |-> writer,
          minLevel      |-> minLevel,
          timeFormat    |-> DefaultTimeFormat,
          useUTC        |-> FALSE,
          severityNames |-> DefaultSeverityNames ],
        opts, 1)

(***************************************************************************)
(* Name.                                                                   *)
(***************************************************************************)
NameMut(lg) == SubSeq(lg.name, 3, Len(lg.name))

Name(lg) == SubSeq(lg.name, 3, Len(lg.name) - 1)

(***************************************************************************)
(* Log: the pure steps of the write path.                                  *)
(***************************************************************************)
FilteredMut(lg, level, msg) ==
    level + 1 < lg.minLevel \/ level >= DisableIssuer \/ Len(msg) = 0

\* the first return: nothing is logged
Filtered(lg, level, msg) ==
    level < lg.minLevel \/ level >= DisableIssuer \/ Len(msg) = 0

\* msg[0].(Caller)
HasCaller(msg) == msg[1].kind = "Caller"

ClampSkipMut(depth) ==
    IF depth < 0 THEN 0 ELSE depth

ClampSkip(depth) ==
    IF depth < 0 THEN 0 ELSE IF depth > 99 THEN 99 ELSE depth

SkipOf(msg) == IF HasCaller(msg) THEN ClampSkip(msg[1].n) ELSE 0

\* msg = msg[1:] when the first component is a Caller
RestOf(msg) == IF HasCaller(msg) THEN Tail(msg) ELSE msg

\* the argument Log hands to runtime.Caller
CallerArg(msg) == SkipOf(msg) + 2

LocationMut(site) ==
    IF site.ok
    THEN <<" ">> \o site.file \o <<":">> \o Itoa(site.line) \o <<":">>
    ELSE <<>>

\* lines 193-199: " " + filepath.Base(file) + ":" + line + ":" when
\* runtime.Caller succeeded
Location(site) ==
    IF site.ok
    THEN <<" ">> \o Base(site.file) \o <<":">> \o Itoa(site.line) \o <<":">>
    ELSE <<>>

RenderMsg(msg) ==
    IF Len(msg) = 1
    THEN (IF IsString(msg[1]) THEN msg[1].s ELSE Sprint(<<msg[1]>>))
    ELSE Sprint(msg)

EnsureNewlineMut(b) == b \o <<NL>>

EnsureNewline(b) ==
    IF Len(b) = 0 \/ b[Len(b)] /= NL THEN b \o <<NL>> ELSE b

Timestamp(lg, now) ==
    Format(IF lg.useUTC THEN UTC(now) ELSE now, lg.timeFormat)

\* the text the strings.Builder holds when Log reaches the write
BuildLine(lg, level, rest, now, site) ==
    EnsureNewline(
        Timestamp(lg, now) \o lg.name \o <<lg.severityNames[level + 1]>>
        \o Location(site) \o <<" ">> \o RenderMsg(rest))

\* Log returns before building a line
Skipped(lg, level, msg) ==
    Filtered(lg, level, msg) \/ RestOf(msg) = <<>>

(***************************************************************************)
(* The I/O of a call: Lock, Write and Unlock events on destinations.       *)
(***************************************************************************)
Event(ev, w, data) == [ev |-> ev, w |-> w, data |-> data]

LogLocksMut(w) == FALSE

\* Log takes the destination's lock when the destination is a locker
LogLocks(w) == HasLock(w)

\* the error of io.WriteString at line 224: nil when the destination took
\* the bytes
WriteResult(wok) == IF wok THEN NoErr ELSE WriteErr

LogReturnsMut(werr) == NoErr

\* line 225: return err
LogReturns(werr) == werr

DeferredUnlockMut(lock, err) == lock /= NoLock /\ err = NoErr

\* line 222: the deferred Unlock runs at the return of a call that took a
\* lock, whatever the call returns
DeferredUnlock(lock, err) == lock /= NoLock

\* a whole Log call run without interruption: what it does and returns
LogRun(lg, level, msg, now, stk, wok) ==
    IF Skipped(lg, level, msg)
    THEN [ wrote |-> FALSE, callerArg |-> -1, site |-> NoSite, line |-> <<>>,
           werr |-> NoErr, err |-> NoErr, io |-> <<>> ]
    ELSE LET site == RuntimeCaller(stk, CallerArg(msg))
             line == BuildLine(lg, level, RestOf(msg), now, site)
             w    == lg.writer
             lk   == LogLocks(w)
         IN  [ wrote     |-> wok,
               callerArg |-> CallerArg(msg),
               site      |-> site,
               line      |-> line,
               werr      |-> WriteResult(wok),
               err       |-> LogReturns(WriteResult(wok)),
               io        |-> (IF lk THEN <<Event("Lock", w, <<>>)>> ELSE <<>>)
                             \o <<Event("Write", w, line)>>
                             \o (IF DeferredUnlock(IF lk THEN w ELSE NoLock,
                                                   WriteResult(wok))
                                 THEN <<Event("Unlock", w, <<>>)>> ELSE <<>>) ]

EmptyBufs == [w \in Writers |-> <<>>]

\* the destinations after the call: a successful write appends its data
Received(b, lg, r) ==
    IF r.wrote THEN [b EXCEPT ![lg.writer] = @ \o r.line] ELSE b

(***************************************************************************)
(* The record of the most recent call.                                     *)
(***************************************************************************)
NoCall ==
    [ op |-> "none", level |-> 0, msg |-> <<>>, name |-> <<>>, w |-> NilWriter,
      before |-> NilWriter, opts |-> <<>>, returned |-> TRUE, err |-> NoErr,
      werr |-> NoErr, retOk |-> FALSE,
      retLevel |-> 0, retName |-> <<>>, pm |-> <<>>, callerArg |-> -1,
      site |-> NoSite, io |-> <<>> ]

LogRecord(op, level, msg, r) ==
    [NoCall EXCEPT !.op = op, !.level = level, !.msg = msg, !.err = r.err,
                   !.werr = r.werr,
                   !.callerArg = r.callerArg, !.site = r.site, !.io = r.io]

(***************************************************************************)
(* The calls, each run to completion on one thread.  The caller makes one  *)
(* call at a time on an engine New returned; between two calls it looks at *)
(* the result and drains the destinations (Reset, as the tests do with     *)
(* bytes.Buffer.Reset), so bufs holds what the call itself delivered.      *)
(***************************************************************************)
Ready ==
    /\ l.constructed
    /\ last.op = "none"
    /\ \A w \in Lockers : lockHolder[w] = NoThread

Reset ==
    /\ last.op /= "none"
    /\ last' = NoCall
    /\ bufs' = EmptyBufs
    /\ UNCHANGED <<l, lockHolder, accepted, thr>>

LogCall(op, level, msg, now, stk, wok) ==
    /\ LET r == LogRun(l, level, msg, now, stk, wok)
       IN  /\ bufs' = Received(bufs, l, r)
           /\ last' = LogRecord(op, level, msg, r)
    /\ UNCHANGED <<l, lockHolder, accepted, thr>>

Log ==
    /\ Ready
    /\ \E level \in Levels, msg \in Msgs, now \in Clock, stk \in Stacks, wok \in BOOLEAN :
        LogCall("Log", level, msg, now, stk, wok)

(***************************************************************************)
(* The per-level wrappers.  An f-variant hands Log the one string that     *)
(* fmt.Sprintf rendered.                                                   *)
(***************************************************************************)
Rendered == { <<>>, <<"a">>, <<"a", NL>> }

Wrapper(op, level) ==
    /\ Ready
    /\ \E msg \in Msgs, now \in Clock, stk \in Stacks, wok \in BOOLEAN :
        LogCall(op, level, msg, now, stk, wok)

WrapperF(op, level) ==
    /\ Ready
    /\ \E s \in Rendered, now \in Clock, stk \in Stacks, wok \in BOOLEAN :
        LogCall(op, level, <<StrC(s)>>, now, stk, wok)

Debug  == Wrapper("Debug", DebugIssuer)
Debugf == WrapperF("Debugf", DebugIssuer)
Info   == Wrapper("Info", InfoIssuer)
Infof  == WrapperF("Infof", InfoIssuer)
Warn   == Wrapper("Warn", WarnIssuer)
Warnf  == WrapperF("Warnf", WarnIssuer)
Error  == Wrapper("Error", ErrorIssuer)
Errorf == WrapperF("Errorf", ErrorIssuer)

(***************************************************************************)
(* Fatal and Fatalf: Log at the Fatal level, then panic.                   *)
(***************************************************************************)
FatalMessageMut(lg, err) ==
    Name(lg) \o <<lg.severityNames[FatalIssuer + 1]>>

\* pm: the bare name, the Fatal label, the write error's text if there is one
FatalMessage(lg, err) ==
    Name(lg) \o <<lg.severityNames[FatalIssuer + 1]>>
    \o (IF err /= NoErr THEN ErrorText(err) ELSE <<>>)

\* whether Fatal returns to its caller: panic(pm) is its last statement
FatalReturns(lg, err) == FALSE

FatalCall(op, msg, now, stk, wok) ==
    /\ LET r == LogRun(l, FatalIssuer, msg, now, stk, wok)
       IN  /\ bufs' = Received(bufs, l, r)
           /\ last' = [LogRecord(op, FatalIssuer, msg, r) EXCEPT
                         !.returned = FatalReturns(l, r.err),
                         !.pm = IF FatalReturns(l, r.err) THEN <<>>
                                ELSE FatalMessage(l, r.err)]
    /\ UNCHANGED <<l, lockHolder, accepted, thr>>

Fatal ==
    /\ Ready
    /\ \E msg \in Msgs, now \in Clock, stk \in Stacks, wok \in BOOLEAN :
        FatalCall("Fatal", msg, now, stk, wok)

Fatalf ==
    /\ Ready
    /\ \E s \in Rendered, now \in Clock, stk \in Stacks, wok \in BOOLEAN :
        FatalCall("Fatalf", <<StrC(s)>>, now, stk, wok)

(***************************************************************************)
(* UpdateWriter.                                                           *)
(***************************************************************************)
UpdateRejectedMut(cur, w) ==
    w = NilWriter \/ (HasLock(cur) /\ HasLock(w))

\* the two returns of false
UpdateRejected(cur, w) ==
    w = NilWriter \/ (HasLock(cur) /\ HasLock(w) /\ cur /= w)

AssignWriterMut(lg, w) == New(lg.name, w, lg.minLevel, <<>>)

\* line 124: l.writer = w
AssignWriter(lg, w) == [lg EXCEPT !.writer = w]

UpdateWriterIO(cur) ==
    IF HasLock(cur)
    THEN <<Event("Lock", cur, <<>>), Event("Unlock", cur, <<>>)>>
    ELSE <<>>

UpdateWriter ==
    /\ Ready
    /\ \E w \in Writers \cup {NilWriter} :
        /\ IF UpdateRejected(l.writer, w)
           THEN /\ l' = l
                /\ last' = [NoCall EXCEPT !.op = "UpdateWriter", !.w = w,
                                          !.before = l.writer, !.retOk = FALSE]
           ELSE /\ l' = AssignWriter(l, w)
                /\ last' = [NoCall EXCEPT !.op = "UpdateWriter", !.w = w,
                                          !.before = l.writer, !.retOk = TRUE,
                                          !.io = UpdateWriterIO(l.writer)]
        /\ UNCHANGED <<bufs, lockHolder, accepted, thr>>

(***************************************************************************)
(* SetLevel, GetLevel, Name.                                               *)
(***************************************************************************)
SetLevelAcceptsMut(level) == level < DisableIssuer

SetLevelAccepts(level) == level <= DisableIssuer

SetLevelStoresMut(lg, level) == [lg EXCEPT !.minLevel = level]

\* lines 134-136: the level is stored only when it is accepted
SetLevelStores(lg, level) ==
    IF SetLevelAccepts(level) THEN [lg EXCEPT !.minLevel = level] ELSE lg

SetLevel ==
    /\ Ready
    /\ \E level \in Levels :
        /\ l' = SetLevelStores(l, level)
        /\ last' = [NoCall EXCEPT !.op = "SetLevel", !.level = level]
        /\ accepted' = IF level <= DisableIssuer THEN level ELSE accepted
        /\ UNCHANGED <<bufs, lockHolder, thr>>

GetLevelValue(lg) == lg.minLevel

GetLevel ==
    /\ Ready
    /\ last' = [NoCall EXCEPT !.op = "GetLevel", !.retLevel = GetLevelValue(l)]
    /\ UNCHANGED <<l, bufs, lockHolder, accepted, thr>>

NameCall ==
    /\ Ready
    /\ last' = [NoCall EXCEPT !.op = "Name", !.retName = Name(l)]
    /\ UNCHANGED <<l, bufs, lockHolder, accepted, thr>>

(***************************************************************************)
(* The engine in use by one thread: Init is a Logger that New returned.    *)
(***************************************************************************)
AltSeverityNames == <<"D", "I", "W", "E", "F">>

RunNames == { <<":", " ", ":">>, <<":", " ", "x", ":">> }

RunOpts ==
    { <<>>,
      <<OptNames(<<"D", "I", "W", "E", "F", "X">>)>>,
      <<OptUTC(TRUE), OptTimeFormat(<<"15">>), OptNames(AltSeverityNames)>> }

IdleThread ==
    [ pc |-> "idle", op |-> "none", level |-> 0, msg |-> <<>>, line |-> <<>>,
      lock |-> NoLock, w |-> NilWriter, wrote |-> FALSE, err |-> NoErr,
      arg |-> NilWriter, cur |-> NilWriter, before |-> NilWriter,
      retOk |-> FALSE ]

Threads == 1..NThreads

NoThreads == [t \in Threads |-> IdleThread]

Init ==
    /\ \E name \in RunNames, writer \in Writers, minLevel \in 0..DisableIssuer,
          opts \in RunOpts :
            /\ NewPanic(name, writer, minLevel) = <<>>
            /\ l = New(name, writer, minLevel, opts)
            /\ accepted = minLevel
    /\ bufs = EmptyBufs
    /\ lockHolder = [w \in Lockers |-> NoThread]
    /\ last = NoCall
    /\ thr = NoThreads

Next ==
    \/ Log
    \/ Debug \/ Debugf \/ Info \/ Infof
    \/ Warn \/ Warnf \/ Error \/ Errorf
    \/ Fatal \/ Fatalf
    \/ UpdateWriter
    \/ SetLevel
    \/ GetLevel
    \/ NameCall
    \/ Reset

Spec == Init /\ [][Next]_vars

(***************************************************************************)
(* Construction: the program before New, New with any arguments, and the   *)
(* accessors on what it returned.                                          *)
(***************************************************************************)
NameChars  == {":", " ", "x"}
NameInputs == SeqsUpTo(NameChars, MaxNameLen)

OptChoices ==
    { OptUTC(TRUE), OptTimeFormat(<<"15">>), OptNames(AltSeverityNames),
      OptNames(<<"D", "I", "W", "E">>), OptNames(<<"D", "I", "W", "E", "F", "X">>) }

OptInputs == SeqsUpTo(OptChoices, MaxOpts)

NewRecord(name, writer, minLevel, opts) ==
    [NoCall EXCEPT !.op = "New", !.name = name, !.w = writer, !.level = minLevel,
                   !.opts = opts,
                   !.returned = (NewPanic(name, writer, minLevel) = <<>>),
                   !.pm = NewPanic(name, writer, minLevel)]

NewCall ==
    /\ ~l.constructed
    /\ last.op = "none"
    /\ \E name \in NameInputs, writer \in Writers \cup {NilWriter},
          minLevel \in Levels, opts \in OptInputs :
            /\ last' = NewRecord(name, writer, minLevel, opts)
            /\ IF NewPanic(name, writer, minLevel) = <<>>
               THEN /\ l' = New(name, writer, minLevel, opts)
                    /\ accepted' = minLevel
               ELSE UNCHANGED <<l, accepted>>
    /\ UNCHANGED <<bufs, lockHolder, thr>>

InitNew ==
    /\ l = ZeroLogger
    /\ bufs = EmptyBufs
    /\ lockHolder = [w \in Lockers |-> NoThread]
    /\ last = NoCall
    /\ accepted = 0
    /\ thr = NoThreads

NextNew ==
    \/ NewCall
    \/ NameCall
    \/ GetLevel
    \/ Reset

SpecNew == InitNew /\ [][NextNew]_vars

(***************************************************************************)
(* Concurrent Log calls on one engine, one call per thread, step by step.  *)
(* The destination's Write copies the bytes in two parts, so that two      *)
(* writes in progress at once mix their bytes.                             *)
(***************************************************************************)
ThreadChars == <<"p", "q", "r", "s">>

ThreadMsg(t) == <<StrC(<<ThreadChars[t]>>)>>

ConcLevels == {InfoIssuer, ErrorIssuer}

FirstPart(b) == SubSeq(b, 1, Len(b) \div 2)

SecondPart(b) == SubSeq(b, (Len(b) \div 2) + 1, Len(b))

\* lines 159-218: the filter, then the line is built
Enter(t) ==
    /\ thr[t].pc = "idle"
    /\ \E level \in ConcLevels, now \in Clock, stk \in Stacks :
        LET msg == ThreadMsg(t)
        IN  thr' = [thr EXCEPT ![t] =
                IF Skipped(l, level, msg)
                THEN [@ EXCEPT !.pc = "done", !.op = "Log", !.level = level,
                               !.msg = msg]
                ELSE [@ EXCEPT !.pc = "built", !.op = "Log", !.level = level,
                               !.msg = msg,
                               !.line = BuildLine(l, level, RestOf(msg), now,
                                            RuntimeCaller(stk, CallerArg(msg)))]]
    /\ UNCHANGED <<l, bufs, lockHolder, last, accepted>>

\* line 220: lock, ok := l.writer.(locker)
AssertLocker(t) ==
    /\ thr[t].pc = "built"
    /\ thr' = [thr EXCEPT ![t] =
            IF LogLocks(l.writer)
            THEN [@ EXCEPT !.pc = "locking", !.lock = l.writer]
            ELSE [@ EXCEPT !.pc = "writing"]]
    /\ UNCHANGED <<l, bufs, lockHolder, last, accepted>>

\* line 221: lock.Lock(); in UpdateWriter line 121: currentLocker.Lock().
\* The call waits until the lock is free.
Acquire(t) ==
    /\ thr[t].pc = "locking"
    /\ lockHolder[thr[t].lock] = NoThread
    /\ lockHolder' = [lockHolder EXCEPT ![thr[t].lock] = t]
    /\ thr' = [thr EXCEPT ![t].pc =
                 IF thr[t].op = "UpdateWriter" THEN "assigning" ELSE "writing"]
    /\ UNCHANGED <<l, bufs, last, accepted>>

\* line 224: io.WriteString(l.writer, b.String()) starts; a rejected write
\* delivers nothing
WriteBegin(t) ==
    /\ thr[t].pc = "writing"
    /\ \E wok \in BOOLEAN :
        IF wok
        THEN /\ bufs' = [bufs EXCEPT ![l.writer] = @ \o FirstPart(thr[t].line)]
             /\ thr' = [thr EXCEPT ![t].pc = "midwrite", ![t].w = l.writer]
        ELSE /\ bufs' = bufs
             /\ thr' = [thr EXCEPT ![t].pc = "unlocking", ![t].w = l.writer,
                                   ![t].err = WriteErr]
    /\ UNCHANGED <<l, lockHolder, last, accepted>>

\* line 224: the write completes
WriteEnd(t) ==
    /\ thr[t].pc = "midwrite"
    /\ bufs' = [bufs EXCEPT ![thr[t].w] = @ \o SecondPart(thr[t].line)]
    /\ thr' = [thr EXCEPT ![t].pc = "unlocking", ![t].wrote = TRUE]
    /\ UNCHANGED <<l, lockHolder, last, accepted>>

\* lines 222, 225: return err, running the deferred lock.Unlock(); in
\* UpdateWriter lines 122, 125
Return(t) ==
    /\ thr[t].pc = "unlocking"
    /\ lockHolder' = IF DeferredUnlock(thr[t].lock, thr[t].err)
                     THEN [lockHolder EXCEPT ![thr[t].lock] = NoThread]
                     ELSE lockHolder
    /\ thr' = [thr EXCEPT ![t].pc = "done"]
    /\ UNCHANGED <<l, bufs, last, accepted>>

InitConc ==
    /\ \E writer \in Writers, minLevel \in {DebugIssuer, WarnIssuer} :
            /\ l = New(<<":", " ", "x", ":">>, writer, minLevel, <<>>)
            /\ accepted = minLevel
    /\ bufs = EmptyBufs
    /\ lockHolder = [w \in Lockers |-> NoThread]
    /\ last = NoCall
    /\ thr = NoThreads

NextConc ==
    \E t \in Threads :
        \/ Enter(t)
        \/ AssertLocker(t)
        \/ Acquire(t)
        \/ WriteBegin(t)
        \/ WriteEnd(t)
        \/ Return(t)

SpecConc == InitConc /\ [][NextConc]_vars

(***************************************************************************)
(* Concurrent Log, UpdateWriter and SetLevel calls on one engine, one call *)
(* per thread.  Every access to l.writer and l.minLevel is a step of its   *)
(* own: Log reads l.writer at line 220 and again at line 224, UpdateWriter *)
(* reads it at line 115 and assigns it at line 124, and none of these is   *)
(* ordered with the others except by the lock the call holds.  A read that *)
(* races with an assignment sees the value before it or the value after.   *)
(***************************************************************************)
RaceArgs == Writers \cup {NilWriter}

RaceLevels == {WarnIssuer, DisableIssuer + 1}

\* lines 112-123 up to the Lock: the nil check, the one read of l.writer,
\* the rejection, the choice to lock
UpdateEnter(t) ==
    /\ thr[t].pc = "idle"
    /\ \E w \in RaceArgs :
        thr' = [thr EXCEPT ![t] =
            IF UpdateRejected(l.writer, w)
            THEN [@ EXCEPT !.pc = "done", !.op = "UpdateWriter", !.arg = w,
                           !.cur = l.writer, !.retOk = FALSE]
            ELSE IF HasLock(l.writer)
            THEN [@ EXCEPT !.pc = "locking", !.op = "UpdateWriter", !.arg = w,
                           !.cur = l.writer, !.lock = l.writer]
            ELSE [@ EXCEPT !.pc = "assigning", !.op = "UpdateWriter", !.arg = w,
                           !.cur = l.writer]]
    /\ UNCHANGED <<l, bufs, lockHolder, last, accepted>>

\* lines 124-125: l.writer = w; return true
Assign(t) ==
    /\ thr[t].pc = "assigning"
    /\ l' = AssignWriter(l, thr[t].arg)
    /\ thr' = [thr EXCEPT ![t].pc = "unlocking", ![t].before = l.writer,
                          ![t].retOk = TRUE]
    /\ UNCHANGED <<bufs, lockHolder, last, accepted>>

\* lines 133-137, SetLevel on a thread of its own
SetLevelStep(t) ==
    /\ thr[t].pc = "idle"
    /\ \E level \in RaceLevels :
        /\ l' = SetLevelStores(l, level)
        /\ accepted' = IF level <= DisableIssuer THEN level ELSE accepted
        /\ thr' = [thr EXCEPT ![t].pc = "done", ![t].op = "SetLevel",
                              ![t].level = level]
    /\ UNCHANGED <<bufs, lockHolder, last>>

InitRace ==
    /\ \E writer \in Writers :
            /\ l = New(<<":", " ", "x", ":">>, writer, DebugIssuer, <<>>)
            /\ accepted = DebugIssuer
    /\ bufs = EmptyBufs
    /\ lockHolder = [w \in Lockers |-> NoThread]
    /\ last = NoCall
    /\ thr = NoThreads

Step(t) ==
    \/ Enter(t)
    \/ AssertLocker(t)
    \/ Acquire(t)
    \/ WriteBegin(t)
    \/ WriteEnd(t)
    \/ Return(t)
    \/ UpdateEnter(t)
    \/ Assign(t)
    \/ SetLevelStep(t)

NextRace == \E t \in Threads : Step(t)

SpecRace == InitRace /\ [][NextRace]_vars

\* the scheduler runs every thread that can take a step; sync.Mutex hands a
\* free lock to a waiting call
SpecRaceFair == SpecRace /\ \A t \in Threads : WF_vars(Step(t))

(***************************************************************************)
(* Vocabulary of the properties.                                           *)
(***************************************************************************)
LogOps ==
    {"Log", "Debug", "Debugf", "Info", "Infof", "Warn", "Warnf", "Error", "Errorf"}

FatalOps == {"Fatal", "Fatalf"}

LastOf(s) == s[Len(s)]

CountNL(s) == Cardinality({i \in 1..Len(s) : s[i] = NL})

IsWriteEvent(e) == e.ev = "Write"

WriteEvents(io) == SelectSeq(io, IsWriteEvent)

\* the components that are message content: all but a leading caller-depth marker
Content(msg) ==
    IF msg /= <<>> /\ msg[1].kind = "Caller" THEN Tail(msg) ELSE msg

\* the level passes the filter
LevelAccepted == l.minLevel <= last.level /\ last.level < DisableIssuer

\* a call of the write path that is not short-circuited
Accepted ==
    /\ last.op \in LogOps
    /\ LevelAccepted
    /\ Content(last.msg) /= <<>>

RECURSIVE MsgNLs(_)
MsgNLs(msg) ==
    IF msg = <<>> THEN 0
    ELSE (IF IsString(msg[1]) THEN CountNL(msg[1].s) ELSE 0) + MsgNLs(Tail(msg))

\* the rendered message ends in a line terminator
RECURSIVE MsgEndsNL(_)
MsgEndsNL(msg) ==
    IF msg = <<>> THEN FALSE
    ELSE LET c == msg[Len(msg)]
         IN  IF ~IsString(c) THEN FALSE
             ELSE IF c.s = <<>> THEN MsgEndsNL(SubSeq(msg, 1, Len(msg) - 1))
             ELSE LastOf(c.s) = NL

\* line terminators the caller and the configuration put into the line
InputNLs ==
    CountNL(l.name) + CountNL(l.timeFormat)
    + CountNL(<<l.severityNames[last.level + 1]>>)
    + CountNL(last.site.file) + MsgNLs(Content(last.msg))

(***************************************************************************)
(* C1: Log writes zero bytes to the destination and returns a nil error    *)
(* whenever the level is below the minimum level, the level is Disabled or *)
(* greater, or the message sequence is empty, for every minimum level in   *)
(* Debug..Disabled.                                                        *)
(***************************************************************************)
C1_FilteredWritesNothing ==
    ( /\ last.op \in LogOps
      /\ \/ last.level < l.minLevel
         \/ last.level >= DisableIssuer
         \/ last.msg = <<>> )
    => /\ bufs = EmptyBufs
       /\ last.io = <<>>
       /\ last.err = NoErr
       /\ last.returned

C1_Witness ==
    /\ last.op = "Log"
    /\ l.minLevel = DisableIssuer
    /\ last.level = FatalIssuer
    /\ last.msg = <<StrC(<<"a">>)>>
    /\ bufs = EmptyBufs

(***************************************************************************)
(* C2 as stated: an accepted call performs exactly one write of exactly    *)
(* one line, and the line ends in exactly one line terminator whatever the *)
(* message.                                                                *)
(***************************************************************************)
C2_OneLineOneTerminator ==
    Accepted =>
        /\ Len(WriteEvents(last.io)) = 1
        /\ LET data == WriteEvents(last.io)[1].data
           IN  /\ LastOf(data) = NL
               /\ CountNL(data) = 1

(***************************************************************************)
(* C2 as amended: an accepted call performs exactly one write, to the      *)
(* destination; the text written ends in a line terminator, one being      *)
(* appended exactly when the rendered message does not already end in one; *)
(* the text is one line with one terminator whenever the message, the      *)
(* name, the label, the time format and the file name hold no terminator   *)
(* other than a single final one of the message.                           *)
(***************************************************************************)
C2_EndsInTerminator ==
    Accepted =>
        /\ Len(WriteEvents(last.io)) = 1
        /\ LET e    == WriteEvents(last.io)[1]
               ends == MsgEndsNL(Content(last.msg))
           IN  /\ e.w = l.writer
               /\ LastOf(e.data) = NL
               /\ CountNL(e.data) = InputNLs + (IF ends THEN 0 ELSE 1)
               /\ (InputNLs = (IF ends THEN 1 ELSE 0)) => CountNL(e.data) = 1
               /\ last.err = NoErr => bufs = [EmptyBufs EXCEPT ![l.writer] = e.data]
               /\ last.err /= NoErr => bufs = EmptyBufs

C2_Witness ==
    /\ Accepted
    /\ last.msg = <<StrC(<<"a", NL>>)>>
    /\ last.err = NoErr
    /\ CountNL(bufs[l.writer]) = 1

(***************************************************************************)
(* C4: Fatal and Fatalf always end by raising the panic and never return   *)
(* normally, for every minimum level (Disabled included, when nothing is   *)
(* written) and whether the write succeeded or failed; the panic message   *)
(* is the bare name, then the Fatal label, then the write error's text     *)
(* exactly when the write path returned an error.                          *)
(***************************************************************************)
C4_FatalAlwaysPanics ==
    last.op \in FatalOps =>
        /\ ~last.returned
        /\ last.level = FatalIssuer
        /\ last.pm = SubSeq(l.name, 3, Len(l.name) - 1)
                     \o <<l.severityNames[FatalIssuer + 1]>>
                     \o (IF last.err = NoErr THEN <<>> ELSE <<WriteErr>>)
        /\ (l.minLevel = DisableIssuer => last.io = <<>> /\ last.err = NoErr)
        /\ (last.err /= NoErr <=> /\ l.minLevel <= FatalIssuer
                                  /\ Content(last.msg) /= <<>>
                                  /\ bufs = EmptyBufs
                                  /\ Len(WriteEvents(last.io)) = 1)

C4_Witness ==
    /\ last.op = "Fatal"
    /\ l.minLevel = DisableIssuer
    /\ last.msg = <<StrC(<<"a">>)>>
    /\ bufs = EmptyBufs
    /\ ~last.returned
    /\ last.pm = <<"x", "fatal:">>

(***************************************************************************)
(* C5: UpdateWriter(w) returns false and leaves the destination unchanged  *)
(* exactly when w is nil, or when the current destination and w are both   *)
(* lock-capable and not the identical instance; in every other case it     *)
(* returns true and the destination becomes w.                             *)
(***************************************************************************)
C5_UpdateWriterOutcome ==
    last.op = "UpdateWriter" =>
        LET rejected ==
                \/ last.w = NilWriter
                \/ /\ last.before \in Lockers
                   /\ last.w \in Lockers
                   /\ last.before /= last.w
        IN  /\ last.retOk = ~rejected
            /\ l.writer = IF rejected THEN last.before ELSE last.w
            /\ l.writer /= NilWriter

C5_Witness ==
    /\ last.op = "UpdateWriter"
    /\ last.before = "L1"
    /\ last.w = "L1"
    /\ last.retOk
    /\ l.writer = "L1"

(***************************************************************************)
(* C6: SetLevel(level) replaces the minimum level when level <= Disabled   *)
(* and is a no-op when level > Disabled; GetLevel has no side effects and  *)
(* returns the value set by the most recent accepted SetLevel, or the      *)
(* construction-time minimum level if none was accepted.                   *)
(***************************************************************************)
C6_SetAndGetLevel ==
    [][ /\ last'.op = "SetLevel" =>
            l' = IF last'.level <= DisableIssuer
                 THEN [l EXCEPT !.minLevel = last'.level]
                 ELSE l
        /\ last'.op = "GetLevel" =>
            /\ last'.retLevel = accepted
            /\ l' = l
            /\ bufs' = bufs
            /\ lockHolder' = lockHolder
            /\ last'.io = <<>> ]_vars

C6_Witness ==
    /\ last.op = "SetLevel"
    /\ last.level = DisableIssuer + 1
    /\ l.minLevel = WarnIssuer
    /\ accepted = WarnIssuer

C8_NameStripsDelimiters ==
    last.op = "Name" =>
        /\ <<":", " ">> \o last.retName \o <<":">> = l.name
        /\ Len(last.retName) = Len(l.name) - 3

C8_Witness ==
    /\ last.op = "Name"
    /\ l.name = <<":", " ", ":">>
    /\ last.retName = <<>>

(***************************************************************************)
(* C9: WithSeverityNames replaces the labels with the supplied sequence    *)
(* when it has exactly 5 entries, and leaves them at their previous value  *)
(* (the defaults, or those an earlier option set) with no error when it    *)
(* has any other number of entries.                                        *)
(***************************************************************************)
FiveEntryOptions(opts) ==
    {i \in 1..Len(opts) : opts[i].opt = "WithSeverityNames" /\ Len(opts[i].names) = 5}

\* the labels the claim predicts: those of the last option with 5 entries
ExpectedLabels(opts) ==
    LET S == FiveEntryOptions(opts)
    IN  IF S = {} THEN <<"debug:", "info:", "warn:", "error:", "fatal:">>
        ELSE opts[CHOOSE i \in S : \A j \in S : j <= i].names

C9_SeverityNamesOption ==
    (last.op = "New" /\ last.returned) =>
        /\ l.constructed
        /\ l.severityNames = ExpectedLabels(last.opts)
        /\ Len(l.severityNames) = 5

C9_Witness ==
    /\ last.op = "New"
    /\ last.returned
    /\ Len(last.opts) = 2
    /\ last.opts[1] = OptNames(AltSeverityNames)
    /\ last.opts[2].opt = "WithSeverityNames"
    /\ Len(last.opts[2].names) = 6
    /\ l.severityNames = AltSeverityNames

(***************************************************************************)
(* C10: when the first component of an accepted Log call is a caller-depth *)
(* marker, it is consumed and not rendered as message content, the depth   *)
(* used to resolve the call site is the marker's value clamped to [0, 99], *)
(* and if no component follows the marker the call writes nothing and      *)
(* returns no error.                                                       *)
(***************************************************************************)
Clamped(n) == IF n < 0 THEN 0 ELSE IF n > 99 THEN 99 ELSE n

\* the end of the line when only the given components are rendered
ExpectedEnd(content) ==
    LET m == <<" ">> \o RenderMsg(content)
    IN  IF LastOf(m) = NL THEN m ELSE m \o <<NL>>

EndsWith(data, suffix) ==
    /\ Len(data) >= Len(suffix)
    /\ SubSeq(data, Len(data) - Len(suffix) + 1, Len(data)) = suffix

C10_CallerMarker ==
    ( /\ last.op \in LogOps
      /\ LevelAccepted
      /\ last.msg /= <<>>
      /\ last.msg[1].kind = "Caller" )
    => IF Len(last.msg) = 1
       THEN /\ last.io = <<>>
            /\ bufs = EmptyBufs
            /\ last.err = NoErr
       ELSE /\ last.callerArg = Clamped(last.msg[1].n) + 2
            /\ Len(WriteEvents(last.io)) = 1
            /\ EndsWith(WriteEvents(last.io)[1].data, ExpectedEnd(Tail(last.msg)))

C10_Witness ==
    /\ last.op = "Info"
    /\ last.msg = <<CallerC(100), StrC(<<"a">>)>>
    /\ last.callerArg = 101
    /\ last.site.ok
    /\ last.err = NoErr
    /\ EndsWith(bufs[l.writer], <<" ", "w", ":", "1", "0", "2", ":", " ", "a", NL>>)

(***************************************************************************)
(* C3: when N threads concurrently call Log on one engine whose            *)
(* destination is lock-capable (and is not being changed), each with a     *)
(* distinct message at an accepted level, the destination ends up with     *)
(* exactly N complete lines, one per call, and no line contains bytes of   *)
(* another call's line: the write of one call never overlaps another's.    *)
(* Stated for the calls whose write the destination took: a filtered call  *)
(* and a rejected write deliver nothing.                                   *)
(***************************************************************************)
Delivered == {t \in Threads : thr[t].wrote}

AllDone == \A t \in Threads : thr[t].pc = "done"

Orders(S) ==
    {f \in [1..Cardinality(S) -> S] : \A i, j \in DOMAIN f : i /= j => f[i] /= f[j]}

RECURSIVE LinesInOrder(_, _)
LinesInOrder(f, i) ==
    IF i > Cardinality(DOMAIN f) THEN <<>>
    ELSE thr[f[i]].line \o LinesInOrder(f, i + 1)

C3_NoInterleavedLines ==
    l.writer \in Lockers =>
        /\ Cardinality({t \in Threads : thr[t].pc = "midwrite"}) <= 1
        /\ AllDone =>
            /\ \E f \in Orders(Delivered) : bufs[l.writer] = LinesInOrder(f, 1)
            /\ CountNL(bufs[l.writer]) = Cardinality(Delivered)
            /\ \A w \in Writers \ {l.writer} : bufs[w] = <<>>

C3_Witness ==
    /\ l.writer = "L1"
    /\ AllDone
    /\ Delivered = Threads
    /\ \A t, u \in Threads : t /= u => thr[t].line /= thr[u].line
    /\ CountNL(bufs["L1"]) = NThreads

(***************************************************************************)
(* C11: whenever the destination is lock-capable, a Log call holds the     *)
(* destination's lock from before the write starts, and the lock is        *)
(* released on every exit path: a call that has returned, with or without  *)
(* an error, holds no lock, and a call short-circuited by the filter never *)
(* takes a lock.  Stated for concurrent Log calls on an engine whose       *)
(* destination is not being changed.                                       *)
(***************************************************************************)
HeldBy(t) == {w \in Lockers : lockHolder[w] = t}

C11_LockReleasedOnEveryExit ==
    \A t \in Threads :
        /\ thr[t].pc = "done" => HeldBy(t) = {}
        /\ (thr[t].pc \in {"writing", "midwrite"} /\ HasLock(l.writer))
              => HeldBy(t) = {l.writer}
        /\ (thr[t].op = "Log" /\ Skipped(l, thr[t].level, thr[t].msg))
              => (thr[t].lock = NoLock /\ HeldBy(t) = {})

C11_Witness ==
    \E t, u \in Threads :
        /\ thr[t].pc = "done" /\ thr[t].err = WriteErr /\ thr[t].lock = "L1"
        /\ thr[u].pc = "done" /\ Skipped(l, thr[u].level, thr[u].msg)
        /\ lockHolder["L1"] = NoThread

(***************************************************************************)
(* C12: an accepted Log call, and each of Debug, Info, Warn, Error and     *)
(* their f-variants (which log at their own level), makes exactly one      *)
(* write attempt on the destination: it returns the error that write       *)
(* produced when the destination rejects it, and no error when the write   *)
(* succeeds.                                                               *)
(***************************************************************************)
OpLevel(op) ==
    CASE op \in {"Debug", "Debugf"} -> DebugIssuer
      [] op \in {"Info", "Infof"}   -> InfoIssuer
      [] op \in {"Warn", "Warnf"}   -> WarnIssuer
      [] op \in {"Error", "Errorf"} -> ErrorIssuer
      [] OTHER                      -> last.level

C12_OneWriteItsError ==
    Accepted =>
        /\ last.level = OpLevel(last.op)
        /\ Len(WriteEvents(last.io)) = 1
        /\ WriteEvents(last.io)[1].w = l.writer
        /\ last.err = last.werr
        /\ last.werr = NoErr => bufs[l.writer] = WriteEvents(last.io)[1].data
        /\ last.werr /= NoErr => bufs = EmptyBufs

C12_Witness ==
    /\ Accepted
    /\ last.op = "Warnf"
    /\ last.werr = WriteErr
    /\ last.err = WriteErr

(***************************************************************************)
(* C13: every line written by an accepted Log call at level L consists, in *)
(* this order, of the formatted timestamp, the configured name with its    *)
(* delimiters, the severity label at index L, the segment                  *)
(* " <basefile>:<line>:" exactly when call-site resolution succeeded (no   *)
(* segment, and no failure, when it did not), a single space, and the      *)
(* rendered message; C13_LineLayout has the line terminator follow the     *)
(* rendered message in every line, C13_LineLayoutOwnTerminator has it      *)
(* follow unless the rendered message already ends in one.                 *)
(***************************************************************************)
Written == WriteEvents(last.io)[1].data

SiteSegment ==
    IF last.site.ok
    THEN <<" ">> \o Base(last.site.file) \o <<":">> \o Itoa(last.site.line) \o <<":">>
    ELSE <<>>

UpToMessage(now) ==
    Format(IF l.useUTC THEN UTC(now) ELSE now, l.timeFormat)
    \o l.name \o <<l.severityNames[last.level + 1]>>
    \o SiteSegment \o <<" ">> \o Sprint(Content(last.msg))

C13_LineLayout ==
    Accepted => \E now \in Clock : Written = UpToMessage(now) \o <<NL>>

C13_LineLayoutOwnTerminator ==
    Accepted =>
        \E now \in Clock :
            Written = UpToMessage(now)
                      \o (IF MsgEndsNL(Content(last.msg)) THEN <<>> ELSE <<NL>>)

C13_Witness ==
    /\ Accepted
    /\ last.site.ok
    /\ last.site.file = <<"d", "/", "m">>
    /\ MsgEndsNL(Content(last.msg))
    /\ l.useUTC
    /\ bufs[l.writer] = Written

(***************************************************************************)
(* C14: in every state reachable from a constructed engine by Log, the     *)
(* per-level calls, SetLevel with any argument and UpdateWriter with any   *)
(* argument (nil included), the destination is non-nil, the minimum level  *)
(* is at most Disabled, and the severity labels hold exactly 5 entries, so *)
(* the label lookup at every level Debug..Fatal is in range.               *)
(***************************************************************************)
C14_EngineInvariant ==
    l.constructed =>
        /\ l.writer /= NilWriter
        /\ l.writer \in Writers
        /\ l.minLevel <= DisableIssuer
        /\ Len(l.severityNames) = 5
        /\ \A level \in DebugIssuer..FatalIssuer :
              level + 1 \in DOMAIN l.severityNames

C14_Witness ==
    /\ last.op = "SetLevel"
    /\ last.level > DisableIssuer
    /\ l.minLevel = DisableIssuer
    /\ l.severityNames = AltSeverityNames

(***************************************************************************)
(* C15: after construction no runtime operation changes the name, the time *)
(* format, the UTC flag or the severity labels: Log, the per-level calls,  *)
(* GetLevel and Name change no configuration field, SetLevel changes at    *)
(* most the minimum level, UpdateWriter at most the destination.           *)
(***************************************************************************)
C15_RuntimeFrame ==
    [][ l.constructed =>
          /\ l'.name = l.name
          /\ l'.timeFormat = l.timeFormat
          /\ l'.useUTC = l.useUTC
          /\ l'.severityNames = l.severityNames
          /\ l'.constructed
          /\ last'.op \in (LogOps \cup FatalOps \cup {"GetLevel", "Name"}) => l' = l
          /\ last'.op = "SetLevel" => l' = [l EXCEPT !.minLevel = l'.minLevel]
          /\ last'.op = "UpdateWriter" => l' = [l EXCEPT !.writer = l'.writer]
      ]_vars

C15_Witness ==
    /\ last.op = "UpdateWriter"
    /\ last.retOk
    /\ l.writer /= last.before
    /\ l.useUTC
    /\ l.timeFormat = <<"15">>
    /\ l.severityNames = AltSeverityNames

(***************************************************************************)
(* C16: in every interleaving of concurrent Log and UpdateWriter calls,    *)
(* each write to a lock-capable destination is performed while the writing *)
(* call holds that destination's lock, so no two writes on one             *)
(* lock-capable destination overlap.                                       *)
(***************************************************************************)
WritingTo(w) == {t \in Threads : thr[t].pc = "midwrite" /\ thr[t].w = w}

C16_WritesUnderOwnLock ==
    \A w \in Lockers :
        /\ \A t \in WritingTo(w) : lockHolder[w] = t
        /\ Cardinality(WritingTo(w)) <= 1

(***************************************************************************)
(* C17: in every interleaving of concurrent UpdateWriter calls, an         *)
(* UpdateWriter call whose argument is lock-capable and differs from the   *)
(* lock-capable destination in place at the moment of its swap returns     *)
(* false and leaves the destination unchanged: a lock-capable destination  *)
(* is never replaced directly by a different lock-capable one.             *)
(***************************************************************************)
C17_NoLockerReplacesLocker ==
    \A t \in Threads :
        (thr[t].op = "UpdateWriter" /\ thr[t].retOk)
            => ~(HasLock(thr[t].arg) /\ HasLock(thr[t].before)
                 /\ thr[t].arg /= thr[t].before)

(***************************************************************************)
(* C18: under fair scheduling, with a destination whose write always       *)
(* returns, every Log and UpdateWriter call returns in every interleaving  *)
(* of concurrent Log, UpdateWriter and SetLevel calls.  Every step of a    *)
(* call lowers the number of steps the call has left; a call that has not  *)
(* returned can take a step, or waits for a lock whose holder can take a   *)
(* step (no deadlock); no call holds more than one destination lock; and   *)
(* once all calls have returned every destination lock is free.  With the  *)
(* weak fairness of SpecRaceFair these give the return of every call.      *)
(***************************************************************************)
StepsLeft(pc) ==
    CASE pc = "idle"      -> 6
      [] pc = "built"     -> 5
      [] pc = "locking"   -> 4
      [] pc = "writing"   -> 3
      [] pc = "assigning" -> 3
      [] pc = "midwrite"  -> 2
      [] pc = "unlocking" -> 1
      [] pc = "done"      -> 0

CanStep(t) == ENABLED Step(t)

WaitsOnRunning(t) ==
    /\ thr[t].pc = "locking"
    /\ \E u \in Threads \ {t} : lockHolder[thr[t].lock] = u /\ CanStep(u)

NoneRunning == \A t \in Threads : thr[t].pc \in {"idle", "done"}

C18_CallsReturn ==
    /\ [](\A t \in Threads : Cardinality(HeldBy(t)) <= 1)
    /\ [](\A t \in Threads :
            thr[t].pc /= "done" => (CanStep(t) \/ WaitsOnRunning(t)))
    /\ [](NoneRunning => \A w \in Lockers : lockHolder[w] = NoThread)
    /\ [][ \E t \in Threads :
              /\ StepsLeft(thr'[t].pc) < StepsLeft(thr[t].pc)
              /\ \A u \in Threads \ {t} : thr'[u] = thr[u] ]_vars

C18_Witness ==
    \E t, u \in Threads :
        /\ AllDone
        /\ thr[t].op = "Log" /\ thr[t].wrote /\ thr[t].lock = "L1"
        /\ thr[u].op = "UpdateWriter" /\ thr[u].retOk /\ thr[u].lock = "L1"
        /\ \A w \in Lockers : lockHolder[w] = NoThread

====
